---- MODULE Spec2Model ----
(***************************************************************************)
(* Fruit quality detection pipeline.                                       *)
(*                                                                         *)
(* These state machines share this module:                                 *)
(*   Spec      - one run of process_shelf_video (pipeline/orchestrator.py) *)
(*               driving the stream_frames generator (vision/capture.py)   *)
(*               and the two sinks (events/publisher.py, search/indexer.py)*)
(*   LiveSpec  - the same run, also over live sources whose reads never    *)
(*               fail, with every step eventually taken                    *)
(*   RetrySpec - one call of a function wrapped by retry(max_attempts)     *)
(*               (pipeline/decorators.py)                                  *)
(*   ScoreSpec - one call of assess_freshness (quality/score.py)           *)
(*   DrawSpec  - one call of draw_detections (vision/detect.py)            *)
(*   DetectorSpec - one call of FruitDetector.detect (vision/detect.py)    *)
(*   DocSpec   - calls of create_fruit_document (search/indexer.py)        *)
(*   CostSpec  - calls on one CostTracker                                  *)
(*               (evaluation/azure_ai_foundry/cost_tracker.py)             *)
(* The run of Spec is entered through its timer and log_execution wrappers.*)
(***************************************************************************)
EXTENDS Integers, Sequences, FiniteSets, TLC

\* ------------------------------------------------------------ bounds
\* largest frame cap (config.max_frames) explored; 0 means unlimited
MaxCap == 5
\* largest number of frames the source delivers before a read fails
MaxSrc == 5
\* largest number of detections the detector returns for one frame
MaxDet == 2
\* largest max_attempts given to retry
MaxAttempts == 4
\* largest height and width of a frame handed to assess_freshness
MaxDim == 2
\* value up to which a counter is followed in a run that nothing bounds
Horizon == 2
\* latest reading of the clock, in ticks, at which a document is created
MaxTick == 11
\* largest number of documents created in one history
MaxDocs == 2
\* largest number of sessions a CostTracker ends
MaxSessions == 2
\* largest number of requests logged in one session
MaxRequests == 2

\* ------------------------------------------------------------ state
VARIABLES
    config,           \* PipelineConfig: max_frames, enable_events, enable_search, display
    source,           \* the video source: can it be opened, frames before a failed read
    pc,               \* position of the run inside process_shelf_video
    stats,            \* the statistics dict
    event_publisher,  \* the EventPublisher (constructed = FALSE models None)
    search_repo,      \* the SearchRepository (constructed = FALSE models None)
    gen,              \* the stream_frames generator: state, frame_count, capture handle
    detections,       \* number of detections of the current frame
    det,              \* index of the detection being processed (for det in detections)
    pubResult,        \* outcome of the last publish call: "none", "True", "False", "raised"
    idxResult,        \* outcome of the last index_document call
    cancelled,        \* cv2.waitKey observed 'q'
    exc,              \* the exception in flight or surfaced to the caller, "none" if none
    invoked,          \* how often detect, assess_freshness, draw_detections, imshow,
                      \* waitKey ran
    call,             \* the call through timer and log_execution: position, log, outcome
    trace,            \* the stage calls made for the current frame, in order
    retry,            \* state of one retry-wrapped call
    quality,          \* one call of assess_freshness: its inputs and its result
    drawing,          \* one call of draw_detections: the arrays and its position
    detector,         \* one call of FruitDetector.detect: allow-list, boxes, result
    docs,             \* the clock and the documents made by create_fruit_document
    tracker           \* one CostTracker: sessions, current session, last call

pipeVars == <<config, source, pc, stats, event_publisher, search_repo, gen,
              detections, det, pubResult, idxResult, cancelled, exc,
              invoked, call, trace>>
others == <<drawing, detector, docs, tracker>>
vars == <<config, source, pc, stats, event_publisher, search_repo, gen,
          detections, det, pubResult, idxResult, cancelled, exc,
          invoked, call, trace, retry, quality, drawing, detector, docs, tracker>>

\* ------------------------------------------------------------ sinks
\* EventPublisher.__init__: _client stays None (the client initialisation is a TODO)
EventPublisher == [constructed |-> TRUE, _client |-> "None",
                   publishCalls |-> 0, closeCalls |-> 0]

\* SearchRepository.__init__: _client stays None
SearchRepository == [constructed |-> TRUE, _client |-> "None", indexCalls |-> 0]

\* event_publisher = None
NoPublisher == [constructed |-> FALSE, _client |-> "None",
                publishCalls |-> 0, closeCalls |-> 0]

\* search_repo = None
NoRepository == [constructed |-> FALSE, _client |-> "None", indexCalls |-> 0]

\* a Python bool as the run records it
PyBool(b) == IF b THEN "True" ELSE "False"

publishFalse(p) == FALSE

\* EventPublisher.publish: the value it returns when it returns
publish(p) == IF p._client = "None" THEN TRUE ELSE TRUE

\* SearchRepository.index_document: the value it returns when it returns
index_document(r) == IF r._client = "None" THEN TRUE ELSE TRUE

\* ------------------------------------------------------------ counters
\* A run has no bound when its source is live (cap.read() never fails) and
\* max_frames is 0: neither the cap check nor a failed read ends the stream.
Unbounded(max_frames, src) == src.live /\ max_frames = 0

\* x += k. Python integers have no upper limit; in a run that has no bound the
\* counter is followed up to Horizon and held there, so that the endless loop
\* of such a run is a cycle of finitely many states.
Tally(x, k, unbounded) == IF unbounded /\ x + k > Horizon THEN Horizon ELSE x + k

\* x += k on a counter of the run
Plus(x, k) == Tally(x, k, Unbounded(config.max_frames, source))

\* ------------------------------------------------------------ stream_frames
\* the generator object before its first next()
NewGenerator == [state |-> "created", frame_count |-> 0, capOpen |-> FALSE,
                 releases |-> 0, eos |-> FALSE, yielded |-> 0]

\* the finally clause of stream_frames: cap.release()
Release(g) == [g EXCEPT !.state = "closed", !.capOpen = FALSE,
                        !.releases = g.releases + 1]

LoopFromOffByOne(g, max_frames, src) ==
    IF max_frames > 0 /\ g.frame_count > max_frames
    THEN Release(g)
    ELSE IF ~(src.live \/ g.frame_count < src.length)
         THEN Release([g EXCEPT !.eos = TRUE])
         ELSE [g EXCEPT !.state = "suspended",
                        !.yielded = Tally(g.yielded, 1, Unbounded(max_frames, src))]

LoopFromRaiseOnFailedRead(g, max_frames, src) ==
    IF max_frames > 0 /\ g.frame_count >= max_frames
    THEN Release(g)
    ELSE IF ~(src.live \/ g.frame_count < src.length)
         THEN [Release(g) EXCEPT !.state = "failed"]
         ELSE [g EXCEPT !.state = "suspended",
                        !.yielded = Tally(g.yielded, 1, Unbounded(max_frames, src))]

LoopFromZeroIsCap(g, max_frames, src) ==
    IF g.frame_count >= max_frames
    THEN Release(g)
    ELSE IF ~(src.live \/ g.frame_count < src.length)
         THEN Release([g EXCEPT !.eos = TRUE])
         ELSE [g EXCEPT !.state = "suspended",
                        !.yielded = Tally(g.yielded, 1, Unbounded(max_frames, src))]

LoopFromUncapped(g, max_frames, src) ==
    IF ~(src.live \/ g.frame_count < src.length)
    THEN Release([g EXCEPT !.eos = TRUE])
    ELSE [g EXCEPT !.state = "suspended",
                   !.yielded = Tally(g.yielded, 1, Unbounded(max_frames, src))]

\* The loop of stream_frames from its head up to the next yield or the end:
\* the cap check, cap.read(), then yield or break into the finally clause.
LoopFrom(g, max_frames, src) ==
    IF max_frames > 0 /\ g.frame_count >= max_frames
    THEN Release(g)
    ELSE IF ~(src.live \/ g.frame_count < src.length)
         THEN Release([g EXCEPT !.eos = TRUE])
         ELSE [g EXCEPT !.state = "suspended",
                        !.yielded = Tally(g.yielded, 1, Unbounded(max_frames, src))]

GenNextNoOpenCheck(g, max_frames, src) ==
    IF g.state = "created"
    THEN LoopFrom([g EXCEPT !.capOpen = TRUE], max_frames, src)
    ELSE LoopFrom([g EXCEPT !.frame_count =
                         Tally(g.frame_count, 1, Unbounded(max_frames, src))],
                  max_frames, src)

\* next() on the generator. The first call opens the capture; a source that
\* cannot be opened raises ValueError before the try block, so nothing is
\* released. A later call resumes after the yield: frame_count += 1.
GenNext(g, max_frames, src) ==
    IF g.state = "created"
    THEN IF ~src.opens
         THEN [g EXCEPT !.state = "failed"]
         ELSE LoopFrom([g EXCEPT !.capOpen = TRUE], max_frames, src)
    ELSE LoopFrom([g EXCEPT !.frame_count =
                         Tally(g.frame_count, 1, Unbounded(max_frames, src))],
                  max_frames, src)

GenAbandonLeak(g) == g

\* The for loop is left by break or by an exception while the generator is
\* suspended at its yield: the loop held the only reference to the generator,
\* so it is finalised at once (reference counting): GeneratorExit is thrown in
\* at the yield and the finally clause runs.
GenAbandon(g) == IF g.state = "suspended" THEN Release(g) ELSE g

\* ------------------------------------------------------------ process_shelf_video
Configs == [max_frames : 0..MaxCap, enable_events : BOOLEAN,
            enable_search : BOOLEAN, display : BOOLEAN]

\* a file or stream that ends: reads fail after length frames
Sources == [opens : BOOLEAN, length : 0..MaxSrc, live : {FALSE}]

\* also a live device: once opened, every read delivers a frame
LiveSources == [opens : BOOLEAN, length : 0..MaxSrc, live : BOOLEAN]

NoSource == [opens |-> FALSE, length |-> 0, live |-> FALSE]

ZeroStats == [frames_processed |-> 0, detections |-> 0,
              events_published |-> 0, documents_indexed |-> 0]

NoException == [type |-> "none", id |-> 0]

\* the retry wrapper when no wrapped call is in progress
RetryIdle == [max_attempts |-> 0, pc |-> "off", attempt |-> 0, calls |-> <<>>,
              sleeps |-> 0,
              result |-> [kind |-> "none", value |-> "none", exc |-> NoException]]

\* no stage has been invoked
NoneInvoked == [detect |-> 0, assess |-> 0, draw |-> 0, imshow |-> 0, waitKey |-> 0]

\* process_shelf_video has not been called
NotCalled == [at |-> "idle", log |-> <<>>, runs |-> 0,
              kind |-> "none", exc |-> "none", value |-> ZeroStats]

\* assess_freshness is not being called
NoAssessment ==
    [pc |-> "off", height |-> 0, width |-> 0,
     bbox |-> [x1 |-> 0, y1 |-> 0, x2 |-> 0, y2 |-> 0],
     mean_value |-> 0, mean_saturation |-> 0, variance |-> 0,
     analysed |-> FALSE,
     result |-> [freshness_level |-> "none", score |-> 0, color_score |-> 0,
                 texture_score |-> 0, confidence |-> 0]]

\* draw_detections is not being called
NoArray == [height |-> 0, width |-> 0, px |-> <<>>]
NoDrawing == [pc |-> "off", frame |-> 0, annotated |-> 0, result |-> 0,
              heap |-> <<>>, given |-> NoArray, len |-> 0, i |-> 0]

\* FruitDetector.detect is not being called
NoDetector == [pc |-> "off", classes |-> [given |-> FALSE, labels |-> {}],
               boxes |-> <<>>, result |-> <<>>]

\* create_fruit_document is not in use
NoDocs == [pc |-> "off", clock |-> 0, created |-> <<>>]

\* no CostTracker is in use
NoSession == [active |-> FALSE, requests |-> 0]
NoCall == [op |-> "none", kind |-> "none", exc |-> "none", total_requests |-> 0]
NoTracker == [pc |-> "off", sessions |-> <<>>, current_session |-> NoSession,
              last |-> NoCall]

\* one stage call in the trace of a frame: det is the number of the detection
\* it was made for (1, 2, ...), 0 for a call made for the frame
Event(op, k) == [op |-> op, det |-> k]

\* The caller holds a PipelineConfig and a video source; nothing has run.
Init ==
    /\ config \in Configs
    /\ source \in Sources
    /\ pc = "idle"
    /\ stats = ZeroStats
    /\ event_publisher = NoPublisher
    /\ search_repo = NoRepository
    /\ gen = NewGenerator
    /\ detections = 0
    /\ det = 0
    /\ pubResult = "none"
    /\ idxResult = "none"
    /\ cancelled = FALSE
    /\ exc = "none"
    /\ invoked = NoneInvoked
    /\ call = NotCalled
    /\ trace = <<>>
    /\ retry = RetryIdle
    /\ quality = NoAssessment
    /\ drawing = NoDrawing
    /\ detector = NoDetector
    /\ docs = NoDocs
    /\ tracker = NoTracker

StartWithoutSinks ==
    /\ pc = "idle"
    /\ event_publisher' = NoPublisher
    /\ search_repo' = NoRepository
    /\ stats' = ZeroStats
    /\ gen' = NewGenerator
    /\ pc' = "pull"
    /\ call' = [call EXCEPT !.at = "body", !.runs = call.runs + 1,
                            !.log = Append(call.log, "Executing")]
    /\ UNCHANGED <<config, source, detections, det, pubResult, idxResult,
                   cancelled, exc, trace, retry, quality, others, invoked>>

\* The caller calls process_shelf_video(config): the timer wrapper takes the
\* start time, the log_execution wrapper logs "Executing ..." and calls the
\* function. Component initialisation: the sinks per the enable flags, the
\* zeroed statistics, and the generator object made by calling stream_frames.
Start ==
    /\ pc = "idle"
    /\ event_publisher' = IF config.enable_events THEN EventPublisher ELSE NoPublisher
    /\ search_repo' = IF config.enable_search THEN SearchRepository ELSE NoRepository
    /\ stats' = ZeroStats
    /\ gen' = NewGenerator
    /\ pc' = "pull"
    /\ call' = [call EXCEPT !.at = "body", !.runs = call.runs + 1,
                            !.log = Append(call.log, "Executing")]
    /\ UNCHANGED <<config, source, detections, det, pubResult, idxResult,
                   cancelled, exc, trace, retry, quality, others, invoked>>

\* for success, frame in stream_frames(...): one next() on the generator.
\* A yielded pair always has success = True, so "if not success: break"
\* never leaves the loop; the loop ends on StopIteration or on ValueError.
Pull ==
    /\ pc = "pull"
    /\ gen' = GenNext(gen, config.max_frames, source)
    /\ pc' = IF gen'.state = "suspended" THEN "detect" ELSE "finally"
    /\ exc' = IF gen'.state = "failed" THEN "open" ELSE exc
    /\ trace' = IF gen'.state = "suspended" THEN <<>> ELSE trace
    /\ UNCHANGED <<config, source, stats, event_publisher, search_repo,
                   detections, det, pubResult, idxResult, cancelled, retry, quality, others, invoked, call>>

SinkAlways(p, r) == "publish"

SinkIndexFirst(p, r) ==
    IF r.constructed THEN "index"
    ELSE IF p.constructed THEN "publish" ELSE "next"

\* Where the body of "for det in detections" goes after assess_freshness:
\* "if event_publisher:" then "if search_repo:".
SinkAfterAssess(p, r) ==
    IF p.constructed THEN "publish"
    ELSE IF r.constructed THEN "index" ELSE "next"

\* after the publish block: "if search_repo:"
SinkAfterPublish(r) == IF r.constructed THEN "index" ELSE "next"

AfterDetectionFirstOnly(d, n) == "annotate"

\* The position after the body of the detections loop ran for detection d
\* of n: the next detection or the annotation of the frame.
AfterDetection(d, n) == IF d + 1 < n THEN "assess" ELSE "annotate"

DetectUncounted ==
    /\ pc = "detect"
    /\ \E n \in 0..MaxDet :
        /\ detections' = n
        /\ pc' = IF n > 0 THEN "assess" ELSE "annotate"
    /\ det' = 0
    /\ invoked' = [invoked EXCEPT !.detect = Plus(invoked.detect, 1)]
    /\ trace' = Append(trace, Event("detect", 0))
    /\ UNCHANGED <<config, source, stats, event_publisher, search_repo, gen,
                   pubResult, idxResult, cancelled, exc, retry, quality, others, call>>

\* detections = detector.detect(frame); stats['detections'] += len(detections)
Detect ==
    /\ pc = "detect"
    /\ \E n \in 0..MaxDet :
        /\ detections' = n
        /\ stats' = [stats EXCEPT !.detections = Plus(stats.detections, n)]
        /\ pc' = IF n > 0 THEN "assess" ELSE "annotate"
    /\ det' = 0
    /\ invoked' = [invoked EXCEPT !.detect = Plus(invoked.detect, 1)]
    /\ trace' = Append(trace, Event("detect", 0))
    /\ UNCHANGED <<config, source, event_publisher, search_repo, gen,
                   pubResult, idxResult, cancelled, exc, retry, quality, others, call>>

\* quality = assess_freshness(frame, det.bbox, det.label)
Assess ==
    /\ pc = "assess"
    /\ LET to == SinkAfterAssess(event_publisher, search_repo)
       IN  /\ pc' = IF to = "next" THEN AfterDetection(det, detections) ELSE to
           /\ det' = IF to = "next" THEN det + 1 ELSE det
    /\ pubResult' = "none"
    /\ idxResult' = "none"
    /\ invoked' = [invoked EXCEPT !.assess = Plus(invoked.assess, 1)]
    /\ trace' = Append(trace, Event("assess", det + 1))
    /\ UNCHANGED <<config, source, stats, event_publisher, search_repo, gen,
                   detections, cancelled, exc, retry, quality, others, call>>

\* asyncio.run(event_publisher.publish(event)) returns; the returned value is
\* dropped and stats['events_published'] += 1
Publish ==
    /\ pc = "publish"
    /\ event_publisher' = [event_publisher EXCEPT
                             !.publishCalls = Plus(event_publisher.publishCalls, 1)]
    /\ pubResult' = PyBool(publish(event_publisher))
    /\ stats' = [stats EXCEPT !.events_published = Plus(stats.events_published, 1)]
    /\ trace' = Append(trace, Event("publish", det + 1))
    /\ LET to == SinkAfterPublish(search_repo)
       IN  /\ pc' = IF to = "next" THEN AfterDetection(det, detections) ELSE to
           /\ det' = IF to = "next" THEN det + 1 ELSE det
    /\ UNCHANGED <<config, source, search_repo, gen, detections, idxResult,
                   cancelled, exc, retry, quality, others, invoked, call>>

\* search_repo.index_document(document) returns; the returned value is
\* dropped and stats['documents_indexed'] += 1
Index ==
    /\ pc = "index"
    /\ search_repo' = [search_repo EXCEPT
                         !.indexCalls = Plus(search_repo.indexCalls, 1)]
    /\ idxResult' = PyBool(index_document(search_repo))
    /\ stats' = [stats EXCEPT !.documents_indexed = Plus(stats.documents_indexed, 1)]
    /\ trace' = Append(trace, Event("index", det + 1))
    /\ pc' = AfterDetection(det, detections)
    /\ det' = det + 1
    /\ UNCHANGED <<config, source, event_publisher, gen, detections, pubResult,
                   cancelled, exc, retry, quality, others, invoked, call>>

AnnotateThenDisplay ==
    /\ pc = "annotate"
    /\ pc' = "display"
    /\ invoked' = [invoked EXCEPT !.draw = Plus(invoked.draw, 1)]
    /\ trace' = Append(trace, Event("annotate", 0))
    /\ UNCHANGED <<config, source, stats, event_publisher, search_repo, gen,
                   detections, det, pubResult, idxResult, cancelled, exc,
                   retry, quality, others, call>>

\* annotated = draw_detections(frame, detections); "if config.display:"
Annotate ==
    /\ pc = "annotate"
    /\ pc' = IF config.display THEN "display" ELSE "count"
    /\ invoked' = [invoked EXCEPT !.draw = Plus(invoked.draw, 1)]
    /\ trace' = Append(trace, Event("annotate", 0))
    /\ UNCHANGED <<config, source, stats, event_publisher, search_repo, gen,
                   detections, det, pubResult, idxResult, cancelled, exc, retry, quality, others, call>>

\* cv2.imshow(...); cv2.waitKey(1) did not see 'q'
Display ==
    /\ pc = "display"
    /\ pc' = "count"
    /\ invoked' = [invoked EXCEPT !.imshow = Plus(invoked.imshow, 1),
                                  !.waitKey = Plus(invoked.waitKey, 1)]
    /\ trace' = trace \o <<Event("imshow", 0), Event("waitKey", 0)>>
    /\ UNCHANGED <<config, source, stats, event_publisher, search_repo, gen,
                   detections, det, pubResult, idxResult, cancelled, exc, retry, quality, others, call>>

\* cv2.waitKey(1) saw 'q': break. The loop is left with the generator
\* suspended, and frames_processed is not incremented for this frame.
Cancel ==
    /\ pc = "display"
    /\ cancelled' = TRUE
    /\ gen' = GenAbandon(gen)
    /\ pc' = "finally"
    /\ invoked' = [invoked EXCEPT !.imshow = Plus(invoked.imshow, 1),
                                  !.waitKey = Plus(invoked.waitKey, 1)]
    /\ trace' = trace \o <<Event("imshow", 0), Event("waitKey", 0)>>
    /\ UNCHANGED <<config, source, stats, event_publisher, search_repo,
                   detections, det, pubResult, idxResult, exc, retry, quality, others, call>>

\* stats['frames_processed'] += 1, then back to the head of the for loop
Count ==
    /\ pc = "count"
    /\ stats' = [stats EXCEPT !.frames_processed = Plus(stats.frames_processed, 1)]
    /\ pc' = "pull"
    /\ UNCHANGED <<config, source, event_publisher, search_repo, gen,
                   detections, det, pubResult, idxResult, cancelled, exc,
                   trace, retry, quality, others, invoked, call>>

Stages == {"detect", "assess", "publish", "index", "annotate", "display"}

\* A call made by the loop body raises (at the display step: cv2.imshow).
\* Nothing in the body catches it: it leaves the for loop (the suspended
\* generator is finalised) and reaches the finally clause of the run. A sink
\* call that raises was invoked.
StageRaises ==
    /\ pc \in Stages
    /\ exc' = pc
    /\ event_publisher' = IF pc = "publish"
                          THEN [event_publisher EXCEPT
                                  !.publishCalls =
                                      Plus(event_publisher.publishCalls, 1)]
                          ELSE event_publisher
    /\ search_repo' = IF pc = "index"
                      THEN [search_repo EXCEPT
                              !.indexCalls = Plus(search_repo.indexCalls, 1)]
                      ELSE search_repo
    /\ pubResult' = IF pc = "publish" THEN "raised" ELSE pubResult
    /\ idxResult' = IF pc = "index" THEN "raised" ELSE idxResult
    /\ gen' = GenAbandon(gen)
    /\ pc' = "finally"
    /\ invoked' = [invoked EXCEPT
                      !.detect = Plus(invoked.detect, IF pc = "detect" THEN 1 ELSE 0),
                      !.assess = Plus(invoked.assess, IF pc = "assess" THEN 1 ELSE 0),
                      !.draw = Plus(invoked.draw, IF pc = "annotate" THEN 1 ELSE 0),
                      !.imshow = Plus(invoked.imshow, IF pc = "display" THEN 1 ELSE 0)]
    /\ trace' = Append(trace,
                       Event(IF pc = "display" THEN "imshow" ELSE pc,
                             IF pc \in {"assess", "publish", "index"}
                             THEN det + 1 ELSE 0))
    /\ UNCHANGED <<config, source, stats, detections, det, cancelled, retry, quality, others, call>>

CloseNever(p) == p

\* asyncio.run(event_publisher.close()) under "if event_publisher:"
Close(p) == IF p.constructed
            THEN [p EXCEPT !.closeCalls = p.closeCalls + 1]
            ELSE p

\* finally: cv2.destroyAllWindows(), close the publisher; then either
\* "return stats" or the exception in flight surfaces to the caller.
Finally ==
    /\ pc = "finally"
    /\ event_publisher' = Close(event_publisher)
    /\ pc' = IF exc = "none" THEN "returned" ELSE "raised"
    /\ UNCHANGED <<config, source, stats, search_repo, gen, detections, det,
                   pubResult, idxResult, cancelled, exc, trace, retry, quality, others,
                   invoked, call>>

LoggedSwallow(e) == "none"

\* the "raise" of log_execution's except clause: the exception it caught
LoggedReraise(e) == e

LoggedEntryAlwaysSuccess(at) == "completed successfully"

\* the entry log_execution writes when the wrapped function is done
LoggedEntry(at) == IF at = "returned" THEN "completed successfully" ELSE "failed"

\* "return result" of log_execution
LoggedResult(v) == v

\* The function is done inside log_execution: on return the success entry is
\* logged and the result returned; on an exception the failure entry is logged
\* and the exception re-raised.
LogExecutionExit ==
    /\ call.at = "body"
    /\ pc \in {"returned", "raised"}
    /\ LET e == IF pc = "raised" THEN LoggedReraise(exc) ELSE "none"
       IN  call' = [call EXCEPT
                      !.at = "logged",
                      !.log = Append(call.log, LoggedEntry(pc)),
                      !.kind = IF e = "none" THEN "return" ELSE "raise",
                      !.exc = e,
                      !.value = IF pc = "returned" THEN LoggedResult(stats)
                                ELSE call.value]
    /\ UNCHANGED <<config, source, pc, stats, event_publisher, search_repo, gen,
                   detections, det, pubResult, idxResult, cancelled, exc,
                   invoked, trace, retry, quality, others>>

TimerEntriesAlways(kind) == <<"executed in">>

TimerEntriesNever(kind) == <<>>

\* What timer logs after func(*args, **kwargs): the duration entry when the
\* call returned; an exception passes through timer, which has no handler.
TimerEntries(kind) == IF kind = "return" THEN <<"executed in">> ELSE <<>>

\* The wrapped call is done inside timer: the caller gets the result or the
\* exception.
TimerExit ==
    /\ call.at = "logged"
    /\ call' = [call EXCEPT !.at = "done",
                            !.log = call.log \o TimerEntries(call.kind)]
    /\ UNCHANGED <<config, source, pc, stats, event_publisher, search_repo, gen,
                   detections, det, pubResult, idxResult, cancelled, exc,
                   invoked, trace, retry, quality, others>>

Next ==
    \/ Start
    \/ Pull
    \/ Detect
    \/ Assess
    \/ Publish
    \/ Index
    \/ Annotate
    \/ Display
    \/ Cancel
    \/ Count
    \/ StageRaises
    \/ Finally
    \/ LogExecutionExit
    \/ TimerExit

Spec == Init /\ [][Next]_vars

\* The caller may also hold a live source.
LiveInit ==
    /\ config \in Configs
    /\ source \in LiveSources
    /\ pc = "idle"
    /\ stats = ZeroStats
    /\ event_publisher = NoPublisher
    /\ search_repo = NoRepository
    /\ gen = NewGenerator
    /\ detections = 0
    /\ det = 0
    /\ pubResult = "none"
    /\ idxResult = "none"
    /\ cancelled = FALSE
    /\ exc = "none"
    /\ invoked = NoneInvoked
    /\ call = NotCalled
    /\ trace = <<>>
    /\ retry = RetryIdle
    /\ quality = NoAssessment
    /\ drawing = NoDrawing
    /\ detector = NoDetector
    /\ docs = NoDocs
    /\ tracker = NoTracker

\* The run is single-threaded and synchronous: every call it makes returns or
\* raises, so as long as a step of the run is possible one is taken. Nothing
\* obliges the user to press 'q' or a stage to raise.
LiveSpec == LiveInit /\ [][Next]_vars /\ WF_vars(Next)

\* ------------------------------------------------------------ retry
\* what the wrapped function may return, and the exception types it may raise
Values == {"success", "None"}
ExcTypes == {"ValueError", "IOError"}

Returned(v) == [kind |-> "return", value |-> v, exc |-> NoException]
Raised(e) == [kind |-> "raise", value |-> "none", exc |-> e]

\* retry(max_attempts)(func) is called: the pipeline is not running.
RetryInit ==
    /\ config = [max_frames |-> 0, enable_events |-> FALSE,
                 enable_search |-> FALSE, display |-> FALSE]
    /\ source = NoSource
    /\ pc = "off"
    /\ stats = ZeroStats
    /\ event_publisher = NoPublisher
    /\ search_repo = NoRepository
    /\ gen = NewGenerator
    /\ detections = 0
    /\ det = 0
    /\ pubResult = "none"
    /\ idxResult = "none"
    /\ cancelled = FALSE
    /\ exc = "none"
    /\ invoked = NoneInvoked
    /\ call = NotCalled
    /\ trace = <<>>
    /\ quality = NoAssessment
    /\ drawing = NoDrawing
    /\ detector = NoDetector
    /\ docs = NoDocs
    /\ tracker = NoTracker
    /\ \E m \in -1..MaxAttempts :
          retry = [RetryIdle EXCEPT !.max_attempts = m, !.pc = "called"]

LoopHeadAtLeastOnce(r, a) ==
    IF a < r.max_attempts \/ a = 0
    THEN [r EXCEPT !.pc = "try", !.attempt = a]
    ELSE [r EXCEPT !.pc = "returned", !.result = Returned("None")]

\* The head of "for attempt in range(max_attempts)" with the next value a:
\* the body runs with attempt = a, or the range is used up and the wrapper
\* falls through to "return None".
LoopHead(r, a) ==
    IF a < r.max_attempts
    THEN [r EXCEPT !.pc = "try", !.attempt = a]
    ELSE [r EXCEPT !.pc = "returned", !.result = Returned("None")]

IsLastAttemptEarly(r) == r.attempt >= r.max_attempts - 2

\* if attempt == max_attempts - 1
IsLastAttempt(r) == r.attempt = r.max_attempts - 1

ReraiseWrapped(e) == [type |-> "RetryError", id |-> e.id]

\* the bare "raise" in the except clause: the exception being handled
Reraise(e) == e

\* wrapper(*args, **kwargs) starts: the for loop is entered
RetryEnter ==
    /\ retry.pc = "called"
    /\ retry' = LoopHead(retry, 0)
    /\ UNCHANGED <<pipeVars, quality, others>>

\* return func(*args, **kwargs): func returns v and the wrapper returns it
FuncReturns ==
    /\ retry.pc = "try"
    /\ \E v \in Values :
          retry' = [retry EXCEPT !.calls = Append(retry.calls, Returned(v)),
                                 !.result = Returned(v),
                                 !.pc = "returned"]
    /\ UNCHANGED <<pipeVars, quality, others>>

\* func raises an exception: on the last attempt it is re-raised, otherwise a
\* warning is logged and the wrapper goes to time.sleep(delay)
FuncRaises ==
    /\ retry.pc = "try"
    /\ \E t \in ExcTypes :
          LET e == [type |-> t, id |-> Len(retry.calls) + 1]
              r == [retry EXCEPT !.calls = Append(retry.calls, Raised(e))]
          IN  retry' = IF IsLastAttempt(r)
                       THEN [r EXCEPT !.pc = "raised", !.result = Raised(Reraise(e))]
                       ELSE [r EXCEPT !.pc = "sleep"]
    /\ UNCHANGED <<pipeVars, quality, others>>

\* time.sleep(delay) returns and the for loop takes its next value
RetrySleep ==
    /\ retry.pc = "sleep"
    /\ retry' = LoopHead([retry EXCEPT !.sleeps = retry.sleeps + 1],
                         retry.attempt + 1)
    /\ UNCHANGED <<pipeVars, quality, others>>

RetryNext ==
    \/ RetryEnter
    \/ FuncReturns
    \/ FuncRaises
    \/ RetrySleep

RetrySpec == RetryInit /\ [][RetryNext]_vars

\* ------------------------------------------------------------ assess_freshness
\* Scores are real numbers in the source. The model counts them in ticks of
\* 1/5100, in which every value computed below is a whole number: a mean of
\* 0..255 divided by 255, times 100, halved, times 0.6 is a multiple of 1/5100.
Ticks == 51 * 100

\* what the caller passes: the frame's shape and the bbox coordinates
Dims == 1..MaxDim
Coords == -1..(MaxDim + 1)

\* what cv2 and numpy measure on the region: mean of the V and S channels
\* (0..255) and the variance of the gray levels
MeanValues == {0, 255}
MeanSaturations == {0, 128, 255}
Variances == {0, 500, 2000}

\* one bound of a slice a:b over an axis of length n, as numpy resolves it
SliceBound(a, n) ==
    LET b == IF a < 0 THEN a + n ELSE a
    IN  IF b < 0 THEN 0 ELSE IF b > n THEN n ELSE b

\* number of elements of axis[a:b] for an axis of length n
SliceLen(a, b, n) ==
    LET lo == SliceBound(a, n)
        hi == SliceBound(b, n)
    IN  IF hi > lo THEN hi - lo ELSE 0

\* roi = frame[y1:y2, x1:x2]; roi.size for a frame of 3 channels
RoiSize(q) ==
    SliceLen(q.bbox.y1, q.bbox.y2, q.height)
      * SliceLen(q.bbox.x1, q.bbox.x2, q.width) * 3

\* _default_score(): score 50.0, Medium, confidence 0.0
default_score ==
    [freshness_level |-> "medium", score |-> 50 * Ticks,
     color_score |-> 50 * Ticks, texture_score |-> 50 * Ticks, confidence |-> 0]

\* _analyze_color: ((mean_value / 255) * 100 + (mean_saturation / 255) * 100) / 2
analyze_color(q) == ((q.mean_value + q.mean_saturation) * 100 * Ticks) \div (255 * 2)

\* _analyze_texture: min(100, max(0, 100 - variance / 10))
analyze_texture(q) ==
    LET t == 100 * Ticks - (q.variance * Ticks) \div 10
        lo == IF t < 0 THEN 0 ELSE t
    IN  IF lo > 100 * Ticks THEN 100 * Ticks ELSE lo

FreshnessLevelExclusive(overall_score) ==
    IF overall_score > 70 * Ticks THEN "fresh"
    ELSE IF overall_score > 40 * Ticks THEN "medium"
    ELSE "rotten"

\* the if / elif / else over overall_score
FreshnessLevel(overall_score) ==
    IF overall_score >= 70 * Ticks THEN "fresh"
    ELSE IF overall_score >= 40 * Ticks THEN "medium"
    ELSE "rotten"

\* the part of assess_freshness after the empty-region check
Analysed(q) ==
    LET color_score == analyze_color(q)
        texture_score == analyze_texture(q)
        overall_score == (color_score * 6) \div 10 + (texture_score * 4) \div 10
    IN  [q EXCEPT !.pc = "returned", !.analysed = TRUE,
                  !.result = [freshness_level |-> FreshnessLevel(overall_score),
                              score |-> overall_score,
                              color_score |-> color_score,
                              texture_score |-> texture_score,
                              confidence |-> 75]]

assess_freshnessUnchecked(q) == Analysed(q)

\* assess_freshness(frame, bbox, fruit_type); confidence in hundredths
assess_freshness(q) ==
    IF RoiSize(q) = 0
    THEN [q EXCEPT !.pc = "returned", !.result = default_score]
    ELSE Analysed(q)

\* assess_freshness is about to be called on a frame and a bbox; the pipeline
\* is not running.
ScoreInit ==
    /\ config = [max_frames |-> 0, enable_events |-> FALSE,
                 enable_search |-> FALSE, display |-> FALSE]
    /\ source = NoSource
    /\ pc = "off"
    /\ stats = ZeroStats
    /\ event_publisher = NoPublisher
    /\ search_repo = NoRepository
    /\ gen = NewGenerator
    /\ detections = 0
    /\ det = 0
    /\ pubResult = "none"
    /\ idxResult = "none"
    /\ cancelled = FALSE
    /\ exc = "none"
    /\ invoked = NoneInvoked
    /\ call = NotCalled
    /\ trace = <<>>
    /\ retry = RetryIdle
    /\ drawing = NoDrawing
    /\ detector = NoDetector
    /\ docs = NoDocs
    /\ tracker = NoTracker
    /\ \E h \in Dims, w \in Dims, x1 \in Coords, y1 \in Coords,
          x2 \in Coords, y2 \in Coords,
          mv \in MeanValues, ms \in MeanSaturations, var \in Variances :
          quality = [NoAssessment EXCEPT
                       !.pc = "called", !.height = h, !.width = w,
                       !.bbox = [x1 |-> x1, y1 |-> y1, x2 |-> x2, y2 |-> y2],
                       !.mean_value = mv, !.mean_saturation = ms,
                       !.variance = var]

\* the call runs and returns its QualityScore
AssessFreshness ==
    /\ quality.pc = "called"
    /\ quality' = assess_freshness(quality)
    /\ UNCHANGED <<pipeVars, retry, others>>

ScoreNext == AssessFreshness

ScoreSpec == ScoreInit /\ [][ScoreNext]_vars

\* ------------------------------------------------------------ the run is off
\* process_shelf_video, retry and assess_freshness are not in use
PipelineIdle ==
    /\ config = [max_frames |-> 0, enable_events |-> FALSE,
                 enable_search |-> FALSE, display |-> FALSE]
    /\ source = NoSource
    /\ pc = "off"
    /\ stats = ZeroStats
    /\ event_publisher = NoPublisher
    /\ search_repo = NoRepository
    /\ gen = NewGenerator
    /\ detections = 0
    /\ det = 0
    /\ pubResult = "none"
    /\ idxResult = "none"
    /\ cancelled = FALSE
    /\ exc = "none"
    /\ invoked = NoneInvoked
    /\ call = NotCalled
    /\ trace = <<>>
    /\ retry = RetryIdle
    /\ quality = NoAssessment

\* ------------------------------------------------------------ draw_detections
\* An ndarray is an object: the model keeps the arrays in a heap, a sequence
\* indexed by reference, so that drawing on one array through one reference
\* is seen through every other reference to it.
Colours == {"black", "green"}

\* an array of shape (h, w, 3) whose pixels all have colour c
Array(h, w, c) ==
    [height |-> h, width |-> w,
     px |-> [xy \in (0..(w - 1)) \X (0..(h - 1)) |-> c]]

\* the corner coordinates a detection's bbox may have
Boxes == [x1 : 0..MaxDim, y1 : 0..MaxDim, x2 : 0..MaxDim, y2 : 0..MaxDim]

\* the label is drawn with its origin 10 pixels above the box's corner
TextOffset == 10

Min(a, b) == IF a < b THEN a ELSE b
Max(a, b) == IF a > b THEN a ELSE b

\* the array a with the pixels of the set P that lie inside it painted green
Paint(a, P) ==
    [a EXCEPT !.px = [xy \in DOMAIN a.px |-> IF xy \in P THEN "green" ELSE a.px[xy]]]

\* cv2.rectangle(a, (x1, y1), (x2, y2), (0, 255, 0), 2): the outline of the
\* box, clipped to the array (the outline is taken one pixel wide)
rectangle(a, b) ==
    Paint(a, {xy \in DOMAIN a.px :
                /\ xy[1] \in Min(b.x1, b.x2)..Max(b.x1, b.x2)
                /\ xy[2] \in Min(b.y1, b.y2)..Max(b.y1, b.y2)
                /\ \/ xy[1] \in {b.x1, b.x2}
                   \/ xy[2] \in {b.y1, b.y2}})

\* cv2.putText(a, label_text, (x1, y1 - 10), ...): the glyphs stand on the
\* baseline through the origin and extend to its right, clipped to the array
\* (taken one pixel high). On arrays lower than TextOffset rows the origin of
\* a box inside the array lies above the array and nothing is painted.
putText(a, b) ==
    Paint(a, {xy \in DOMAIN a.px :
                xy[2] = b.y1 - TextOffset /\ xy[1] >= b.x1})

copyAlias(d) == [d EXCEPT !.annotated = d.frame]

\* annotated = frame.copy(): a new array with the content of frame
copy(d) == [d EXCEPT !.heap = Append(d.heap, d.heap[d.frame]),
                     !.annotated = Len(d.heap) + 1]

\* draw_detections is about to be called on a frame and a list of len
\* detections; the caller's array is the only one
DrawInit ==
    /\ PipelineIdle
    /\ detector = NoDetector
    /\ docs = NoDocs
    /\ tracker = NoTracker
    /\ \E h \in Dims, w \in Dims, c \in Colours, n \in 0..MaxDet :
          drawing = [NoDrawing EXCEPT !.pc = "called", !.frame = 1,
                                      !.heap = <<Array(h, w, c)>>,
                                      !.given = Array(h, w, c), !.len = n]

\* annotated = frame.copy()
DrawCopy ==
    /\ drawing.pc = "called"
    /\ drawing' = [copy(drawing) EXCEPT !.pc = "loop"]
    /\ UNCHANGED <<pipeVars, retry, quality, detector, docs, tracker>>

\* one turn of "for det in detections": the rectangle and the label of the
\* next detection are drawn on annotated
DrawBox ==
    /\ drawing.pc = "loop"
    /\ drawing.i < drawing.len
    /\ \E b \in Boxes :
          drawing' = [drawing EXCEPT
                        !.heap[drawing.annotated] =
                            putText(rectangle(drawing.heap[drawing.annotated], b), b),
                        !.i = drawing.i + 1]
    /\ UNCHANGED <<pipeVars, retry, quality, detector, docs, tracker>>

\* return annotated
DrawReturn ==
    /\ drawing.pc = "loop"
    /\ drawing.i = drawing.len
    /\ drawing' = [drawing EXCEPT !.pc = "returned", !.result = drawing.annotated]
    /\ UNCHANGED <<pipeVars, retry, quality, detector, docs, tracker>>

DrawNext ==
    \/ DrawCopy
    \/ DrawBox
    \/ DrawReturn

DrawSpec == DrawInit /\ [][DrawNext]_vars

\* ------------------------------------------------------------ FruitDetector.detect
\* the names the model may give to a box
Labels == {"apple", "banana", "person"}

\* the classes argument of FruitDetector: None, or a list of labels (only
\* membership in the list is used, so the list is kept as a set)
ClassLists == {[given |-> FALSE, labels |-> {}]}
                \cup [given : {TRUE}, labels : SUBSET Labels]

\* the truth value of self.classes: None and the empty list are false
Truthy(classes) == classes.given /\ classes.labels # {}

\* detect(frame): the boxes of the model in order, without those skipped by
\* "if self.classes and label not in self.classes: continue"
detect(d) ==
    LET Kept(label) == ~(Truthy(d.classes) /\ label \notin d.classes.labels)
    IN  [d EXCEPT !.pc = "returned", !.result = SelectSeq(d.boxes, Kept)]

\* the sequences over S of length at most n
SeqsUpTo(S, n) == UNION {[1..k -> S] : k \in 0..n}

\* a FruitDetector was constructed with a classes argument and detect is
\* about to be called on a frame for which the model gives some boxes
DetectorInit ==
    /\ PipelineIdle
    /\ drawing = NoDrawing
    /\ docs = NoDocs
    /\ tracker = NoTracker
    /\ \E c \in ClassLists, b \in SeqsUpTo(Labels, MaxDet) :
          detector = [NoDetector EXCEPT !.pc = "called", !.classes = c, !.boxes = b]

\* the call runs and returns its list of detections
DetectorDetect ==
    /\ detector.pc = "called"
    /\ detector' = detect(detector)
    /\ UNCHANGED <<pipeVars, retry, quality, drawing, docs, tracker>>

DetectorNext == DetectorDetect

DetectorSpec == DetectorInit /\ [][DetectorNext]_vars

\* ------------------------------------------------------------ create_fruit_document
\* Strings are sequences of characters. The clock is read in ticks, the
\* smallest step by which datetime.utcnow().timestamp() changes; the model
\* takes ten ticks to the second.
DigitChars == <<"0", "1", "2", "3", "4", "5", "6", "7", "8", "9">>

\* str(n) for a natural number n
RECURSIVE Digits(_)
Digits(n) == IF n < 10 THEN <<DigitChars[n + 1]>>
             ELSE Digits(n \div 10) \o <<DigitChars[(n % 10) + 1]>>

TimestampStrWholeSeconds(t) == Digits(t \div 10)

\* the text of the float timestamp() in an f-string: seconds, ".", fraction
TimestampStr(t) == Digits(t \div 10) \o <<".">> \o Digits(t % 10)

\* fruit types, some of which contain the separator and digits
FruitTypes == {<<"a">>, <<"a", "_", "0", ".", "1">>, <<"b">>}

\* doc_id = f"{fruit_type}_{datetime.utcnow().timestamp()}"
DocId(fruit_type, t) == fruit_type \o <<"_">> \o TimestampStr(t)

\* the clock runs; no document has been created
DocInit ==
    /\ PipelineIdle
    /\ drawing = NoDrawing
    /\ detector = NoDetector
    /\ tracker = NoTracker
    /\ docs = [NoDocs EXCEPT !.pc = "on"]

\* the clock advances by one tick
ClockTick ==
    /\ docs.pc = "on"
    /\ docs.clock < MaxTick
    /\ docs' = [docs EXCEPT !.clock = docs.clock + 1]
    /\ UNCHANGED <<pipeVars, retry, quality, drawing, detector, tracker>>

\* create_fruit_document(fruit_type, ...) at the current reading of the clock
CreateFruitDocument ==
    /\ docs.pc = "on"
    /\ Len(docs.created) < MaxDocs
    /\ \E ft \in FruitTypes :
          docs' = [docs EXCEPT !.created =
                      Append(docs.created,
                             [fruit_type |-> ft, tick |-> docs.clock,
                              id |-> DocId(ft, docs.clock)])]
    /\ UNCHANGED <<pipeVars, retry, quality, drawing, detector, tracker>>

DocNext ==
    \/ ClockTick
    \/ CreateFruitDocument

DocSpec == DocInit /\ [][DocNext]_vars

\* ------------------------------------------------------------ CostTracker
\* what get_summary or another method did when it was last called
CallReturned(op, n) == [op |-> op, kind |-> "return", exc |-> "none",
                        total_requests |-> n]
CallRaised(op, e) == [op |-> op, kind |-> "raise", exc |-> e, total_requests |-> 0]

\* a session as end_session stores it: the "statistics" key is set only
\* under "if requests:"
EndedSession(cur) ==
    [requests |-> cur.requests,
     statistics |-> IF cur.requests > 0
                    THEN [present |-> TRUE, total_requests |-> cur.requests]
                    ELSE [present |-> FALSE, total_requests |-> 0]]

\* sum(s["statistics"]["total_requests"] for s in sessions)
RECURSIVE SumTotalRequests(_)
SumTotalRequests(sessions) ==
    IF sessions = <<>> THEN 0
    ELSE Head(sessions).statistics.total_requests + SumTotalRequests(Tail(sessions))

\* get_summary(): the message when no session was ended; KeyError when a
\* stored session has no "statistics" key; otherwise the summary
get_summary(t) ==
    IF t.sessions = <<>>
    THEN CallReturned("get_summary", 0)
    ELSE IF \E i \in 1..Len(t.sessions) : ~t.sessions[i].statistics.present
         THEN CallRaised("get_summary", "KeyError")
         ELSE CallReturned("get_summary", SumTotalRequests(t.sessions))

\* CostTracker() was constructed: no sessions, no current session
CostInit ==
    /\ PipelineIdle
    /\ drawing = NoDrawing
    /\ detector = NoDetector
    /\ docs = NoDocs
    /\ tracker = [NoTracker EXCEPT !.pc = "on"]

\* start_session(name): the current session is replaced by a new one
StartSession ==
    /\ tracker.pc = "on"
    /\ tracker' = [tracker EXCEPT
                      !.current_session = [active |-> TRUE, requests |-> 0],
                      !.last = CallReturned("start_session", 0)]
    /\ UNCHANGED <<pipeVars, retry, quality, drawing, detector, docs>>

\* log_request(...): ValueError without a current session, otherwise the
\* request is appended to the current session
LogRequest ==
    /\ tracker.pc = "on"
    /\ tracker.current_session.requests < MaxRequests
    /\ tracker' = IF ~tracker.current_session.active
                  THEN [tracker EXCEPT !.last = CallRaised("log_request", "ValueError")]
                  ELSE [tracker EXCEPT
                          !.current_session.requests =
                              tracker.current_session.requests + 1,
                          !.last = CallReturned("log_request", 0)]
    /\ UNCHANGED <<pipeVars, retry, quality, drawing, detector, docs>>

\* end_session(): returns at once without a current session, otherwise the
\* session is stored (and saved) and there is no current session
EndSession ==
    /\ tracker.pc = "on"
    /\ Len(tracker.sessions) < MaxSessions
    /\ tracker' = IF ~tracker.current_session.active
                  THEN [tracker EXCEPT !.last = CallReturned("end_session", 0)]
                  ELSE [tracker EXCEPT
                          !.sessions = Append(tracker.sessions,
                                              EndedSession(tracker.current_session)),
                          !.current_session = NoSession,
                          !.last = CallReturned("end_session", 0)]
    /\ UNCHANGED <<pipeVars, retry, quality, drawing, detector, docs>>

\* get_summary() is called
GetSummary ==
    /\ tracker.pc = "on"
    /\ tracker' = [tracker EXCEPT !.last = get_summary(tracker)]
    /\ UNCHANGED <<pipeVars, retry, quality, drawing, detector, docs>>

CostNext ==
    \/ StartSession
    \/ LogRequest
    \/ EndSession
    \/ GetSummary

CostSpec == CostInit /\ [][CostNext]_vars

\* ------------------------------------------------------------ properties
Terminal == pc \in {"returned", "raised"}

\* C1 (as stated): a run with frame cap N > 0 that returns statistics has
\* frames_processed = N, or less than N only when the source reported
\* end-of-stream or a failed read before N frames were yielded.
C1_CapOrEndOfStreamOnly ==
    (pc = "returned" /\ config.max_frames > 0) =>
        \/ stats.frames_processed = config.max_frames
        \/ stats.frames_processed < config.max_frames /\ gen.eos

\* C1 (amended): a run with frame cap N > 0 that returns statistics has
\* frames_processed <= N, and less than N only when the source reported
\* end-of-stream or a failed read before N frames were yielded, or the user
\* cancelled the run.
C1_CapEndOfStreamOrCancel ==
    (pc = "returned" /\ config.max_frames > 0) =>
        /\ stats.frames_processed <= config.max_frames
        /\ stats.frames_processed < config.max_frames => (gen.eos \/ cancelled)

C1_Witness ==
    /\ pc = "returned"
    /\ config.max_frames > 1
    /\ stats.frames_processed = config.max_frames
    /\ ~gen.eos
    /\ ~cancelled

\* C2: a publish or index_document call that fails never aborts the run: the
\* run does not end in the error state because of a sink call.
C2_SinkFailureNeverAborts ==
    (pubResult = "raised" \/ idxResult = "raised") => pc # "raised"

C4_IndexInvokedAfterPublishFailure ==
    (Terminal /\ event_publisher.constructed /\ search_repo.constructed
       /\ pubResult = "raised") => idxResult # "none"

\* C5: with enable_events false no EventPublisher exists, publish and close
\* are never invoked and events_published is 0; with enable_search false
\* index_document is never invoked and documents_indexed is 0.
C5_DisabledSinkUntouched ==
    /\ ~config.enable_events =>
          /\ ~event_publisher.constructed
          /\ event_publisher.publishCalls = 0
          /\ event_publisher.closeCalls = 0
          /\ stats.events_published = 0
    /\ ~config.enable_search =>
          /\ ~search_repo.constructed
          /\ search_repo.indexCalls = 0
          /\ stats.documents_indexed = 0

C5_Witness ==
    /\ pc = "returned"
    /\ ~config.enable_events
    /\ config.enable_search
    /\ stats.detections > 1
    /\ stats.documents_indexed = stats.detections

\* C6: a sink that is enabled and has no transport never returns failure from
\* publish / index_document, and a run that returns statistics has the sink's
\* counter equal to detections; a run over 5 frames that was not cancelled,
\* with 5 detections and both sinks enabled, returns 5 for all four counters.
C6_UnconfiguredSinkCountsEveryDetection ==
    /\ (event_publisher.constructed /\ event_publisher._client = "None") =>
          /\ pubResult # "False"
          /\ pc = "returned" => stats.events_published = stats.detections
    /\ (search_repo.constructed /\ search_repo._client = "None") =>
          /\ idxResult # "False"
          /\ pc = "returned" => stats.documents_indexed = stats.detections
    /\ (pc = "returned" /\ event_publisher.constructed /\ search_repo.constructed
          /\ ~cancelled /\ gen.yielded = 5 /\ stats.detections = 5) =>
          /\ stats.frames_processed = 5
          /\ stats.events_published = 5
          /\ stats.documents_indexed = 5

C6_Witness ==
    /\ pc = "returned"
    /\ event_publisher.constructed
    /\ search_repo.constructed
    /\ gen.yielded = 5
    /\ stats = [frames_processed |-> 5, detections |-> 5,
                events_published |-> 5, documents_indexed |-> 5]
    /\ event_publisher.publishCalls = 5
    /\ search_repo.indexCalls = 5

\* number of invocations at the start of calls that raised
RECURSIVE LeadingRaises(_)
LeadingRaises(calls) ==
    IF calls = <<>> \/ Head(calls).kind # "raise"
    THEN 0
    ELSE 1 + LeadingRaises(Tail(calls))

RetryDone == retry.pc \in {"returned", "raised"}

\* C7: with max_attempts = M >= 1 and a function that raises on its first k
\* invocations, k < M, and then returns, the wrapper returns that value and
\* the function was invoked exactly k + 1 times.
C7_RetryEventualSuccess ==
    (RetryDone /\ retry.max_attempts >= 1
       /\ LeadingRaises(retry.calls) < retry.max_attempts) =>
        /\ retry.pc = "returned"
        /\ Len(retry.calls) = LeadingRaises(retry.calls) + 1
        /\ retry.result = retry.calls[Len(retry.calls)]
        /\ retry.result.kind = "return"
        /\ retry.sleeps = LeadingRaises(retry.calls)

C7_Witness ==
    /\ retry.pc = "returned"
    /\ retry.max_attempts = 3
    /\ Len(retry.calls) = 3
    /\ LeadingRaises(retry.calls) = 2
    /\ retry.result = Returned("success")

AllRaise(calls) == \A i \in 1..Len(calls) : calls[i].kind = "raise"

\* C8 (as stated): for every max_attempts = M, a function that raises on every
\* invocation is invoked exactly M times and the wrapper then re-raises the
\* exception of the last attempt.
C8_AlwaysFailingAnyM ==
    (RetryDone /\ AllRaise(retry.calls)) =>
        /\ retry.pc = "raised"
        /\ Len(retry.calls) = retry.max_attempts
        /\ retry.result = retry.calls[Len(retry.calls)]

\* C8 (amended): for max_attempts = M >= 1, a function that raises on every
\* invocation is invoked exactly M times and the wrapper then re-raises the
\* exception of the last attempt unchanged (the same exception, same type).
C8_AlwaysFailingPositiveM ==
    (RetryDone /\ retry.max_attempts >= 1 /\ AllRaise(retry.calls)) =>
        /\ retry.pc = "raised"
        /\ Len(retry.calls) = retry.max_attempts
        /\ retry.result.kind = "raise"
        /\ retry.result.exc = retry.calls[retry.max_attempts].exc
        /\ retry.result.exc.id = retry.max_attempts

C8_Witness ==
    /\ retry.pc = "raised"
    /\ retry.max_attempts = 3
    /\ Len(retry.calls) = 3
    /\ retry.result.exc = [type |-> "IOError", id |-> 3]
    /\ retry.calls[1].exc.type = "ValueError"

\* C9: when the EventPublisher was constructed, close has not been invoked
\* while the run is inside its loop, it has been invoked exactly once when the
\* run has returned or raised, whichever way the loop ended, and publish is
\* never invoked once close has been.
C9_CloseOnceAfterLastPublish ==
    /\ [](event_publisher.constructed =>
            event_publisher.closeCalls = IF Terminal THEN 1 ELSE 0)
    /\ [][event_publisher.closeCalls >= 1 =>
            event_publisher'.publishCalls = event_publisher.publishCalls]_vars

C9_Witness ==
    /\ pc = "raised"
    /\ exc = "detect"
    /\ event_publisher.closeCalls = 1
    /\ event_publisher.publishCalls = 2

\* the capture handle was opened by stream_frames
Opened == gen.state \in {"suspended", "closed"}

\* C10: a capture handle that was opened is released exactly once when the
\* sequence is exhausted, when the loop is left by break and when the loop
\* body raises; it is released before the finally clause of the run, so before
\* the run returns or raises, and it is open only inside the loop body.
C10_HandleReleasedOnce ==
    /\ gen.releases <= 1
    /\ gen.capOpen = (gen.state = "suspended")
    /\ gen.state = "closed" <=> gen.releases = 1
    /\ (Opened /\ (pc = "finally" \/ Terminal)) => gen.state = "closed"
    /\ gen.state = "suspended" => pc \in Stages \cup {"count", "pull"}

C10_Witness ==
    /\ pc = "finally"
    /\ exc = "assess"
    /\ gen.releases = 1
    /\ ~gen.capOpen
    /\ gen.yielded = 2
    /\ ~gen.eos

\* C11: when the source cannot be opened, no pair is yielded, no stage and no
\* sink call is invoked, the statistics stay zero, and the run ends with the
\* ValueError of stream_frames surfacing to the caller, never with statistics.
C11_SourceUnavailableIsFatal ==
    ~source.opens =>
        /\ gen.yielded = 0
        /\ invoked = NoneInvoked
        /\ event_publisher.publishCalls = 0
        /\ search_repo.indexCalls = 0
        /\ stats = ZeroStats
        /\ pc \notin Stages \cup {"count", "returned"}
        /\ (pc \in {"finally", "raised"}) => exc = "open"
        /\ call.kind # "return"
        /\ call.at = "done" => (call.kind = "raise" /\ call.exc = "open")

C11_Witness ==
    /\ ~source.opens
    /\ source.length > 0
    /\ config.enable_events
    /\ call.at = "done"
    /\ call.kind = "raise"
    /\ call.exc = "open"
    /\ gen.state = "failed"

\* the loop was not left by break or by an exception of the loop body
NotAbandoned == ~cancelled /\ exc \notin Stages

\* C12: when a read fails before the frame cap is reached, the sequence ends
\* without raising and the run returns the statistics of the frames read
\* before the failure; no error surfaces to the caller.
C12_FailedReadIsEndOfStream ==
    (source.opens /\ NotAbandoned
       /\ (config.max_frames = 0 \/ source.length < config.max_frames)) =>
        /\ (pc = "finally" \/ Terminal) =>
              /\ gen.eos
              /\ exc = "none"
              /\ pc # "raised"
              /\ gen.yielded = source.length
              /\ stats.frames_processed = source.length
        /\ call.at = "done" =>
              /\ call.kind = "return"
              /\ call.value = stats

C12_Witness ==
    /\ call.at = "done"
    /\ call.kind = "return"
    /\ gen.eos
    /\ source.length = 2
    /\ config.max_frames = 4
    /\ stats.frames_processed = 2
    /\ stats.detections = 3

\* C13: once detect has raised, no frame is pulled, no stage and no sink call
\* runs and the statistics do not change; the run ends in the error state, and
\* the caller gets the exception of detect through log_execution and timer,
\* never statistics.
C13_DetectionFailureAborts ==
    /\ [](exc = "detect" =>
            /\ pc \in {"finally", "raised"}
            /\ call.kind # "return"
            /\ call.at \in {"logged", "done"} =>
                  (call.kind = "raise" /\ call.exc = "detect"))
    /\ [][exc = "detect" =>
            /\ gen'.yielded = gen.yielded
            /\ invoked' = invoked
            /\ stats' = stats
            /\ event_publisher'.publishCalls = event_publisher.publishCalls
            /\ search_repo'.indexCalls = search_repo.indexCalls]_vars

C13_Witness ==
    /\ exc = "detect"
    /\ call.at = "done"
    /\ call.kind = "raise"
    /\ call.exc = "detect"
    /\ invoked.detect = 2
    /\ gen.yielded = 2
    /\ stats.frames_processed = 1

\* C14 (as stated): with a sink enabled and no credentials given, an error is
\* raised at sink construction: the run never gets to its frame loop.
C14_MissingCredentialsRaise ==
    (config.enable_events \/ config.enable_search) =>
        /\ pc \in {"idle", "raised"}
        /\ gen.state = "created"

\* C14 (amended): with a sink enabled and no credentials given, construction
\* does not raise: from the start of the frame loop on, each enabled sink
\* exists without a transport, and the only errors of a run are a source that
\* cannot be opened and a stage that raises.
C14_MissingCredentialsFallBack ==
    /\ pc # "idle" =>
          /\ event_publisher.constructed = config.enable_events
          /\ search_repo.constructed = config.enable_search
          /\ event_publisher._client = "None"
          /\ search_repo._client = "None"
    /\ exc \in {"none", "open"} \cup Stages
    /\ gen.state # "created" => pc # "idle"

C14_Witness ==
    /\ pc = "pull"
    /\ gen.state = "created"
    /\ config.enable_events
    /\ config.enable_search
    /\ event_publisher.constructed
    /\ search_repo.constructed
    /\ exc = "none"

\* the entries of the log written by log_execution, in order
RECURSIVE LoggedEntries(_)
LoggedEntries(log) ==
    IF log = <<>> THEN <<>>
    ELSE IF Head(log) = "executed in" THEN LoggedEntries(Tail(log))
    ELSE <<Head(log)>> \o LoggedEntries(Tail(log))

\* C15: a call through log_execution logs the start entry before the function
\* runs; when the function has returned it has logged exactly the success
\* entry after it and passes the result on unchanged; when the function has
\* raised it has logged exactly the failure entry and re-raises the exception.
C15_LoggedStartThenOutcome ==
    /\ call.at = "idle" => (call.log = <<>> /\ pc = "idle")
    /\ call.at = "body" => LoggedEntries(call.log) = <<"Executing">>
    /\ (call.at \in {"logged", "done"} /\ pc = "returned") =>
          /\ LoggedEntries(call.log) = <<"Executing", "completed successfully">>
          /\ call.kind = "return"
          /\ call.value = stats
    /\ (call.at \in {"logged", "done"} /\ pc = "raised") =>
          /\ LoggedEntries(call.log) = <<"Executing", "failed">>
          /\ call.kind = "raise"
          /\ call.exc = exc
    /\ call.at \in {"logged", "done"} => Terminal

C15_Witness ==
    /\ call.at = "logged"
    /\ pc = "raised"
    /\ exc = "annotate"
    /\ call.log = <<"Executing", "failed">>
    /\ call.exc = "annotate"

\* number of duration entries in the log
RECURSIVE TimerCount(_)
TimerCount(log) ==
    IF log = <<>> THEN 0
    ELSE (IF Head(log) = "executed in" THEN 1 ELSE 0) + TimerCount(Tail(log))

\* C16 (as stated): every call through timer runs the wrapped call exactly
\* once and, when it is over, has logged exactly one duration entry, after
\* the entries of the wrapped call.
C16_TimedAlwaysReports ==
    call.at = "done" =>
        /\ call.runs = 1
        /\ TimerCount(call.log) = 1
        /\ call.log[Len(call.log)] = "executed in"

\* C16 (amended): every call through timer runs the wrapped call exactly once;
\* when the wrapped call returned, exactly one duration entry is logged, after
\* the entries of the wrapped call, and its result is returned unchanged; when
\* it raised, the exception passes through and no duration entry is logged.
C16_TimedReportsOnReturn ==
    /\ call.at # "idle" => call.runs = 1
    /\ call.at # "done" => TimerCount(call.log) = 0
    /\ (call.at = "done" /\ pc = "returned") =>
          /\ TimerCount(call.log) = 1
          /\ call.log[Len(call.log)] = "executed in"
          /\ call.kind = "return"
          /\ call.value = stats
    /\ (call.at = "done" /\ pc = "raised") =>
          /\ TimerCount(call.log) = 0
          /\ call.kind = "raise"
          /\ call.exc = exc

C16_Witness ==
    /\ call.at = "done"
    /\ pc = "returned"
    /\ call.log = <<"Executing", "completed successfully", "executed in">>
    /\ call.value = stats
    /\ stats.frames_processed = 2

ScoreDone == quality.pc = "returned"

\* C17: for a bbox with x1 = x2 or y1 = y2, whatever the frame holds,
\* assess_freshness returns the default score (50.0, Medium, confidence 0.0)
\* and the color and texture analysis does not run.
C17_ZeroAreaGivesDefault ==
    (ScoreDone /\ (quality.bbox.x1 = quality.bbox.x2
                   \/ quality.bbox.y1 = quality.bbox.y2)) =>
        /\ quality.result.score = 50 * Ticks
        /\ quality.result.freshness_level = "medium"
        /\ quality.result.confidence = 0
        /\ quality.result.color_score = 50 * Ticks
        /\ quality.result.texture_score = 50 * Ticks
        /\ ~quality.analysed

C17_Witness ==
    /\ ScoreDone
    /\ quality.bbox = [x1 |-> 1, y1 |-> 0, x2 |-> 1, y2 |-> 2]
    /\ quality.height = 2
    /\ quality.width = 2
    /\ quality.mean_value = 255
    /\ quality.mean_saturation = 255
    /\ quality.result.score = 50 * Ticks

\* C18: every returned QualityScore has Fresh iff score >= 70, Medium iff
\* 40 <= score < 70, Rotten iff score < 40, with score in [0, 100] and
\* confidence in [0, 1].
C18_LevelIsStepOfScore ==
    ScoreDone =>
        /\ quality.result.freshness_level \in {"fresh", "medium", "rotten"}
        /\ quality.result.freshness_level = "fresh"
              <=> quality.result.score >= 70 * Ticks
        /\ quality.result.freshness_level = "medium"
              <=> (quality.result.score >= 40 * Ticks
                   /\ quality.result.score < 70 * Ticks)
        /\ quality.result.freshness_level = "rotten"
              <=> quality.result.score < 40 * Ticks
        /\ quality.result.score >= 0
        /\ quality.result.score <= 100 * Ticks
        /\ quality.result.confidence >= 0
        /\ quality.result.confidence <= 100

C18_Witness ==
    /\ ScoreDone
    /\ quality.analysed
    /\ quality.result.score = 70 * Ticks
    /\ quality.result.freshness_level = "fresh"
    /\ quality.result.confidence = 75

\* the sequence ended by itself: StopIteration, not a break or an exception
\* of the consumer
Exhausted == gen.state = "closed" /\ NotAbandoned

\* C19: with max_frames = N > 0 at most N pairs are yielded; a sequence that
\* ended by itself yielded N pairs, or fewer exactly when the source reported
\* end-of-stream or a failed read; with max_frames = 0 only the source ends it.
C19_StreamEndsAtCapOrEndOfStream ==
    /\ config.max_frames > 0 => gen.yielded <= config.max_frames
    /\ gen.yielded <= source.length
    /\ Exhausted =>
          IF gen.eos
          THEN /\ gen.yielded = source.length
               /\ config.max_frames = 0 \/ gen.yielded < config.max_frames
          ELSE /\ config.max_frames > 0
               /\ gen.yielded = config.max_frames
    /\ gen.eos => gen.state = "closed"

C19_Witness ==
    /\ Exhausted
    /\ config.max_frames = 0
    /\ gen.eos
    /\ gen.yielded = 3

\* C20: the four counters start at 0, no step decreases one of them, and
\* events_published <= detections and documents_indexed <= detections in
\* every state.
C20_CountersMonotonic ==
    /\ [](pc \in {"idle", "pull"} /\ gen.state = "created" => stats = ZeroStats)
    /\ [](/\ stats.events_published <= stats.detections
          /\ stats.documents_indexed <= stats.detections
          /\ stats.frames_processed >= 0)
    /\ [][/\ stats'.frames_processed >= stats.frames_processed
          /\ stats'.detections >= stats.detections
          /\ stats'.events_published >= stats.events_published
          /\ stats'.documents_indexed >= stats.documents_indexed]_vars

C20_Witness ==
    /\ stats.frames_processed = 2
    /\ stats.detections = 5
    /\ stats.events_published = 4
    /\ stats.documents_indexed = 3

\* C21: draw_detections never changes the array it was given; the array it
\* returns has the shape of the given one, and for an empty list of
\* detections it has the content of the given one.
C21_InputUntouchedShapeKept ==
    drawing.pc # "off" =>
        /\ drawing.heap[drawing.frame] = drawing.given
        /\ drawing.pc = "returned" =>
              /\ drawing.heap[drawing.result].height = drawing.given.height
              /\ drawing.heap[drawing.result].width = drawing.given.width
              /\ drawing.len = 0 => drawing.heap[drawing.result] = drawing.given

C21_Witness ==
    /\ drawing.pc = "returned"
    /\ drawing.len = 2
    /\ drawing.given = Array(2, 2, "black")
    /\ drawing.heap[drawing.frame] = drawing.given
    /\ drawing.heap[drawing.result] # drawing.given

\* C22 (as stated): whenever FruitDetector was given a list of classes, the
\* empty list included, every detection that detect returns has its label
\* in that list.
C22_AllowListAlwaysFilters ==
    (detector.pc = "returned" /\ detector.classes.given) =>
        \A i \in 1..Len(detector.result) :
            detector.result[i] \in detector.classes.labels

\* the stage calls for detections k..n: score, then publish when events are
\* enabled, then index when search is enabled
RECURSIVE PerDetection(_, _, _, _)
PerDetection(k, n, events, search) ==
    IF k > n THEN <<>>
    ELSE <<Event("assess", k)>>
           \o (IF events THEN <<Event("publish", k)>> ELSE <<>>)
           \o (IF search THEN <<Event("index", k)>> ELSE <<>>)
           \o PerDetection(k + 1, n, events, search)

\* the stage calls of one frame with n detections, in the order claimed
FrameOrder(n, events, search, display) ==
    <<Event("detect", 0)>> \o PerDetection(1, n, events, search)
      \o <<Event("annotate", 0)>>
      \o (IF display THEN <<Event("imshow", 0), Event("waitKey", 0)>> ELSE <<>>)

IsPrefix(s, t) == Len(s) <= Len(t) /\ SubSeq(t, 1, Len(s)) = s

\* the order claimed for the current frame
ThisFrameOrder ==
    FrameOrder(detections, config.enable_events, config.enable_search,
               config.display)

\* C23: the stage calls made for a frame are, in this order, detect, then for
\* each detection in turn score, publish (if enabled) and index (if
\* enabled), then annotate once, then display; and the run is at the point
\* of pulling the next frame only when all of them have been made.
C23_StagesInOrderPerFrame ==
    /\ IsPrefix(trace, ThisFrameOrder)
    /\ (pc \in {"count", "pull"} /\ gen.yielded > 0) => trace = ThisFrameOrder

C23_Witness ==
    /\ pc = "pull"
    /\ detections = 2
    /\ config.enable_events /\ config.enable_search /\ config.display
    /\ Len(trace) = 10
    /\ trace = ThisFrameOrder
    /\ gen.yielded = 2

\* number of polls of the cancellation signal among the calls of a trace
Polls(tr) == Cardinality({i \in 1..Len(tr) : tr[i].op = "waitKey"})

\* C24 (as stated): for every frame the run processed to the end of its
\* iteration the cancellation signal was polled exactly once.
C24_PolledOncePerFrame ==
    pc = "count" => Polls(trace) = 1

\* the polls made so far, per the display flag
PolledPerDisplayedFrame ==
    /\ ~config.display => invoked.waitKey = 0
    /\ config.display =>
          invoked.waitKey = stats.frames_processed
                              + (IF pc = "count" \/ cancelled THEN 1 ELSE 0)
    /\ Polls(trace) <= 1
    /\ Polls(trace) = 1 => trace = ThisFrameOrder
    /\ cancelled => pc \in {"finally", "returned"} /\ exc = "none"
    /\ (cancelled /\ call.at = "done") =>
          call.kind = "return" /\ call.value = stats

\* C24 (amended): with display enabled the cancellation signal is polled
\* exactly once for every frame, after all stage calls of that frame; with
\* display disabled it is never polled. Once a poll has observed the
\* cancellation, no frame is pulled, no stage is called and no counter
\* changes, and the run returns its statistics.
C24_PolledOncePerDisplayedFrame ==
    [][/\ PolledPerDisplayedFrame'
       /\ cancelled => /\ gen' = gen
                       /\ stats' = stats
                       /\ invoked' = invoked
                       /\ trace' = trace]_vars

C24_Witness ==
    /\ cancelled
    /\ call.at = "done"
    /\ call.kind = "return"
    /\ invoked.waitKey = 2
    /\ stats.frames_processed = 1
    /\ stats.detections = 3

\* C25 (as stated): in the statistics a run returns, frames_processed is
\* the number of frames on which the detector ran and whose detections
\* were added to the detections counter.
C25_EveryDetectedFrameCounted ==
    pc = "returned" => stats.frames_processed = invoked.detect

\* C26 (as stated): a call that is done has run the body once and has
\* logged the start entry, then the success or failure entry, and then the
\* duration entry.
C26_DurationEntryAlwaysLast ==
    call.at = "done" =>
        /\ call.runs = 1
        /\ Len(call.log) = 3
        /\ call.log[1] = "Executing"
        /\ call.log[2] \in {"completed successfully", "failed"}
        /\ call.log[3] = "executed in"

\* C26 (amended): the start entry is logged before the body runs, the body
\* runs once, the success or failure entry follows the body, and the
\* duration entry comes after the success entry only: a call that raised
\* ends with the failure entry.
C26_DurationEntryLastOnReturn ==
    /\ call.at = "idle" => call.log = <<>> /\ call.runs = 0 /\ pc = "idle"
    /\ call.at = "body" =>
          call.log = <<"Executing">> /\ call.runs = 1 /\ pc # "idle"
    /\ call.at = "logged" =>
          /\ Terminal
          /\ call.runs = 1
          /\ call.log = <<"Executing",
                          IF pc = "returned" THEN "completed successfully"
                          ELSE "failed">>
    /\ call.at = "done" =>
          /\ Terminal
          /\ call.runs = 1
          /\ call.log = IF pc = "returned"
                        THEN <<"Executing", "completed successfully", "executed in">>
                        ELSE <<"Executing", "failed">>

C26_Witness ==
    /\ call.at = "done"
    /\ pc = "raised"
    /\ exc = "publish"
    /\ call.runs = 1
    /\ call.log = <<"Executing", "failed">>

\* C27 (as stated): every run eventually reaches the closed state.
C27_EveryRunCloses == <>Terminal

\* C27 (amended): the loop is left only at the frame cap, at the end of the
\* stream, on cancellation or on an exception; with max_frames = N > 0 no
\* more than N frames are pulled, also from a live source; and every run
\* closes eventually unless its source is live and max_frames is 0.
C27_BoundedRunCloses ==
    /\ [](pc = "finally" =>
            \/ cancelled
            \/ exc # "none"
            \/ gen.eos
            \/ config.max_frames > 0 /\ gen.frame_count = config.max_frames)
    /\ [](config.max_frames > 0 => gen.yielded <= config.max_frames)
    /\ (~Unbounded(config.max_frames, source)) => <>Terminal

C27_Witness ==
    /\ pc = "returned"
    /\ source.live
    /\ config.max_frames = 3
    /\ gen.yielded = 3
    /\ ~cancelled
    /\ stats.frames_processed = 3

\* C28: two documents made by create_fruit_document have the same id exactly
\* when they have the same fruit_type and were made at the same tick of the
\* clock.
C28_IdsDistinctAcrossTypeOrTick ==
    \A i, j \in 1..Len(docs.created) :
        (docs.created[i].id = docs.created[j].id)
            <=> /\ docs.created[i].fruit_type = docs.created[j].fruit_type
                /\ docs.created[i].tick = docs.created[j].tick

C28_Witness ==
    /\ Len(docs.created) = 2
    /\ docs.created[1].fruit_type = <<"a", "_", "0", ".", "1">>
    /\ docs.created[1].tick = 11
    /\ docs.created[1].id = docs.created[2].id

\* failed attempts that were not the last allowed one
FailedNotLast(r) ==
    Cardinality({i \in 1..Len(r.calls) :
                    r.calls[i].kind = "raise" /\ i # r.max_attempts})

\* C29: with max_attempts <= 0 the wrapped function is never called, there
\* is no sleep and the wrapper returns None; with max_attempts >= 1 the
\* wrapper returns None only when the function returned None, and it sleeps
\* once after each failed attempt that was not the last allowed one.
C29_NoAttemptsReturnsNone ==
    retry.pc # "off" =>
        /\ retry.max_attempts <= 0 =>
              /\ retry.calls = <<>>
              /\ retry.sleeps = 0
              /\ retry.pc # "raised"
              /\ RetryDone => retry.result = Returned("None")
        /\ (retry.max_attempts >= 1 /\ RetryDone /\ retry.result = Returned("None")) =>
              /\ retry.calls # <<>>
              /\ retry.calls[Len(retry.calls)] = Returned("None")
        /\ retry.sleeps = FailedNotLast(retry)
                            - (IF retry.pc = "sleep" THEN 1 ELSE 0)

C29_Witness ==
    /\ retry.pc = "returned"
    /\ retry.max_attempts = 0
    /\ retry.calls = <<>>
    /\ retry.sleeps = 0
    /\ retry.result = Returned("None")

\* the log_request calls recorded in the sessions that were ended
RECURSIVE RecordedRequests(_)
RecordedRequests(sessions) ==
    IF sessions = <<>> THEN 0
    ELSE Head(sessions).requests + RecordedRequests(Tail(sessions))

\* C30 (as stated): after any sequence of calls on the tracker a call of
\* get_summary returns without raising, and the total_requests it reports is
\* the number of log_request calls recorded in the ended sessions.
C30_SummaryNeverRaises ==
    tracker.pc = "on" =>
        /\ get_summary(tracker).kind = "return"
        /\ get_summary(tracker).total_requests = RecordedRequests(tracker.sessions)

====
